---- MODULE Spec2Model ----
(***************************************************************************)
(* A model of json_to_docx.py: the command line entry point (main), the    *)
(* document assembly (process_json_to_docx, html_to_docx_paragraphs) and   *)
(* the two annotation functions (add_track_change_to_paragraph,            *)
(* add_comment_to_paragraph).                                              *)
(*                                                                         *)
(* Text is a sequence of characters.  A paragraph is the sequence of the   *)
(* child elements of its w:p element; a document is the sequence of its    *)
(* paragraphs plus the list of its comments.                               *)
(*                                                                         *)
(* Four specifications share the variables:                                *)
(*   Spec      the whole program, from main() to its exit;                 *)
(*   SpecAnnot one call of an annotation function on one paragraph;        *)
(*   SpecText  the plain-text branch of process_json_to_docx, one step per *)
(*             comment of the section;                                     *)
(*   SpecHtml  html_to_docx_paragraphs, one step per element of find_all.  *)
(***************************************************************************)
EXTENDS Integers, Sequences, FiniteSets, TLC

VARIABLES
    pc,                 \* position of the program
    args,               \* argparse namespace of main()
    use_track_changes,  \* the mode: TRUE track changes, FALSE comments
    json_data,          \* the parsed input (Spec), as far as it is not yet consumed
    document,           \* the Document being assembled
    item,               \* the section being processed
    walk,               \* html_to_docx_paragraphs: remaining elements, local `paragraph`
    out,                \* what has been printed, in order
    exit_status,        \* the process' exit status (-1 while running)
    log                 \* history: one entry per comment considered against a paragraph

vars == <<pc, args, use_track_changes, json_data, document, item, walk, out,
          exit_status, log>>

----------------------------------------------------------------------------
(* Bounds of the model *)

MaxLen == 3            \* longest paragraph text of SpecAnnot
MaxTextLen == 2        \* longest content of a section in SpecText
MaxTextComments == 2   \* most comments of a section in SpecText
MaxNodes == 3          \* most elements of an html content in SpecHtml
MaxHtmlComments == 2   \* most comments of a section in SpecHtml
MaxItems == 2          \* most sections of the input in Spec

Alphabet == {"a", "b"}

\* all texts of at most n characters
Texts(n) == UNION {[1..k -> Alphabet] : k \in 0..n}

NoId == 0 - 1

----------------------------------------------------------------------------
(* Python's str operations used by the code *)

\* the position a slice bound denotes in a string of length n
PyIndex(i, n) ==
    IF i < 0 THEN (IF i + n < 0 THEN 0 ELSE i + n)
    ELSE (IF i > n THEN n ELSE i)

\* s[lo:hi]
PySlice(s, lo, hi) ==
    LET a == PyIndex(lo, Len(s))
        b == PyIndex(hi, Len(s))
    IN  IF a >= b THEN <<>> ELSE SubSeq(s, a + 1, b)

\* s[:hi]
PySliceTo(s, hi) == PySlice(s, 0, hi)

\* s[lo:]
PySliceFrom(s, lo) == PySlice(s, lo, Len(s))

\* x in s
PyIn(x, s) ==
    \E i \in 0..Len(s) :
        /\ i + Len(x) <= Len(s)
        /\ SubSeq(s, i + 1, i + Len(x)) = x

RECURSIVE Flatten(_)
Flatten(ss) == IF ss = <<>> THEN <<>> ELSE Head(ss) \o Flatten(Tail(ss))

----------------------------------------------------------------------------
(* The document: paragraphs, their child elements, comments *)

\* paragraph.add_run(t): a w:r holding the text t
Run(t) == [kind |-> "r", text |-> t, del |-> <<>>, cid |-> NoId]

\* create_revision_element: a w:del by Reviewer holding a w:t with the text
create_revision_element(comment_text) ==
    [author |-> "Reviewer", text |-> comment_text]

\* paragraph.add_run() with the revision appended to it: the w:r has no text
\* of its own, the deleted text sits in the w:del below it
RevisionRun(revision) ==
    [kind |-> "r", text |-> <<>>, del |-> <<revision>>, cid |-> NoId]

\* the replacement run, moved under a new w:ins that takes its place in w:p
Insertion(t) == [kind |-> "ins", text |-> t, del |-> <<>>, cid |-> NoId]

\* what document.add_comment puts around the runs it is given
CommentRangeStart(c) ==
    [kind |-> "commentRangeStart", text |-> <<>>, del |-> <<>>, cid |-> c]
CommentRangeEnd(c) ==
    [kind |-> "commentRangeEnd", text |-> <<>>, del |-> <<>>, cid |-> c]
CommentReference(c) == [kind |-> "r", text |-> <<>>, del |-> <<>>, cid |-> c]

\* Document()
NewDocument == [paragraphs |-> <<>>, comments |-> <<>>]

\* paragraph.runs: the w:r children of w:p (a run under w:ins is not one)
ParagraphRuns(paragraph) == SelectSeq(paragraph.body, LAMBDA e : e.kind = "r")

\* paragraph.text: the text of the w:r children of w:p
ParagraphText(paragraph) ==
    LET runs == ParagraphRuns(paragraph)
    IN  Flatten([i \in 1..Len(runs) |-> runs[i].text])

\* faulty variant of paragraph.clear(): the content stays
ParagraphClear_Keep(paragraph) == paragraph

\* paragraph.clear(): the content goes, the style stays
ParagraphClear(paragraph) == [paragraph EXCEPT !.body = <<>>]

\* document.add_paragraph(text, style): the run is added only for a text
AddParagraph(doc, text, style) ==
    [doc EXCEPT !.paragraphs =
        Append(@, [style |-> style,
                   body |-> IF text # <<>> THEN <<Run(text)>> ELSE <<>>])]

\* paragraph = document.add_paragraph(); paragraph.style = ...;
\* paragraph.add_run(text): the run is added whatever the text
AddListParagraph(doc, text, style) ==
    [doc EXCEPT !.paragraphs = Append(@, [style |-> style, body |-> <<Run(text)>>])]

----------------------------------------------------------------------------
(* The annotation functions *)

\* the guard both functions open with
InvalidRange(start_index, end_index, text) ==
    \/ start_index >= Len(text)
    \/ end_index > Len(text)
    \/ start_index >= end_index

WarnTrack == "Warning: Invalid track change range"
WarnComment == "Warning: Invalid comment range"

\* faulty variant of TrackChangeContent: the text after the change is lost
TrackChangeContent_NoAfter(before_change, changed_text, comment_text, after_change) ==
    (IF before_change # <<>> THEN <<Run(before_change)>> ELSE <<>>)
    \o <<RevisionRun(create_revision_element(changed_text))>>
    \o <<Insertion(comment_text)>>

\* what add_track_change_to_paragraph puts into the cleared paragraph
TrackChangeContent(before_change, changed_text, comment_text, after_change) ==
    (IF before_change # <<>> THEN <<Run(before_change)>> ELSE <<>>)
    \o <<RevisionRun(create_revision_element(changed_text))>>
    \o <<Insertion(comment_text)>>
    \o (IF after_change # <<>> THEN <<Run(after_change)>> ELSE <<>>)

\* add_track_change_to_paragraph on paragraph number pi of doc:
\* the document afterwards and what was printed
add_track_change_to_paragraph(doc, pi, start_index, end_index, comment_text) ==
    LET paragraph == doc.paragraphs[pi]
        text == ParagraphText(paragraph)
    IN  IF InvalidRange(start_index, end_index, text)
        THEN [doc |-> doc, printed |-> <<WarnTrack>>]
        ELSE [doc |-> [doc EXCEPT !.paragraphs[pi] =
                        [ParagraphClear(paragraph) EXCEPT !.body =
                            @ \o TrackChangeContent(
                                    PySliceTo(text, start_index),
                                    PySlice(text, start_index, end_index),
                                    comment_text,
                                    PySliceFrom(text, end_index))]],
              printed |-> <<>>]

\* faulty variant of CommentContent: the text before the comment is lost
CommentContent_NoBefore(before_comment, commented_text, after_comment) ==
    <<Run(commented_text)>>
    \o (IF after_comment # <<>> THEN <<Run(after_comment)>> ELSE <<>>)

\* the runs add_comment_to_paragraph puts into the cleared paragraph
CommentContent(before_comment, commented_text, after_comment) ==
    (IF before_comment # <<>> THEN <<Run(before_comment)>> ELSE <<>>)
    \o <<Run(commented_text)>>
    \o (IF after_comment # <<>> THEN <<Run(after_comment)>> ELSE <<>>)

\* the loop over paragraph.runs: the position of the first run whose text
\* contains commented_text, 0 when there is none
FindTargetRun(body, commented_text) ==
    LET hits == {i \in 1..Len(body) :
                    body[i].kind = "r" /\ PyIn(commented_text, body[i].text)}
    IN  IF hits = {} THEN 0
        ELSE CHOOSE i \in hits : \A j \in hits : i <= j

\* document.add_comment(runs, text, ...) for the runs at positions
\* first..last of the body: the range start goes above the first run, the
\* range end and the reference run below the last
MarkCommentRange(body, first, last, c) ==
    SubSeq(body, 1, first - 1)
    \o <<CommentRangeStart(c)>>
    \o SubSeq(body, first, last)
    \o <<CommentRangeEnd(c), CommentReference(c)>>
    \o SubSeq(body, last + 1, Len(body))

\* add_comment_to_paragraph on paragraph number pi of doc
add_comment_to_paragraph(doc, pi, start_index, end_index, comment_id, comment_text) ==
    LET paragraph == doc.paragraphs[pi]
        text == ParagraphText(paragraph)
    IN  IF InvalidRange(start_index, end_index, text)
        THEN [doc |-> doc, printed |-> <<WarnComment>>]
        ELSE
          LET commented_text == PySlice(text, start_index, end_index)
              body == CommentContent(PySliceTo(text, start_index),
                                     commented_text,
                                     PySliceFrom(text, end_index))
              target_run == FindTargetRun(body, commented_text)
              c == Len(doc.comments)
              marked == IF target_run # 0
                        THEN MarkCommentRange(body, target_run, target_run, c)
                        ELSE MarkCommentRange(body, 1, Len(body), c)
          IN  [doc |-> [doc EXCEPT
                         !.paragraphs[pi] =
                            [ParagraphClear(paragraph) EXCEPT !.body = @ \o marked],
                         !.comments = Append(@, [id |-> c, text |-> comment_text,
                                                 author |-> "Reviewer"])],
               printed |-> <<>>]

\* the call both callers make, by mode
Annotate(doc, pi, comment, track) ==
    IF track
    THEN add_track_change_to_paragraph(doc, pi, comment.start_index,
                                       comment.end_index, comment.comment_content)
    ELSE add_comment_to_paragraph(doc, pi, comment.start_index, comment.end_index,
                                  comment.id, comment.comment_content)

----------------------------------------------------------------------------
(* The comment loops: one history entry per comment considered             *)

\* what the history keeps of comment number k considered against paragraph
\* pi: the length of the paragraph's text then, whether the range was
\* invalid for it, whether
\* an annotation function was invoked, in which mode, whether a warning was
\* printed, whether the paragraph changed
LogEntry(doc, pi, k, comment, track, invoked, r) ==
    [para |-> pi, comment |-> k,
     len |-> Len(ParagraphText(doc.paragraphs[pi])),
     invalid |-> InvalidRange(comment.start_index, comment.end_index,
                              ParagraphText(doc.paragraphs[pi])),
     invoked |-> invoked, track |-> track,
     warned |-> r.printed # <<>>,
     modified |-> r.doc.paragraphs[pi] # doc.paragraphs[pi]]

\* process_json_to_docx, plain text: the body of `for comment in comments`
\* for comment number k, on state st = [doc, paragraph, out, log, raised]
TextCommentStep(st, comments, k, track) ==
    LET r == Annotate(st.doc, st.paragraph, comments[k], track)
    IN  [st EXCEPT !.doc = r.doc,
                   !.out = @ \o r.printed,
                   !.log = Append(@, LogEntry(st.doc, st.paragraph, k, comments[k],
                                              track, TRUE, r))]

\* the whole loop, from comment number k on
RECURSIVE TextComments(_, _, _, _)
TextComments(st, comments, k, track) ==
    IF k > Len(comments) THEN st
    ELSE TextComments(TextCommentStep(st, comments, k, track), comments, k + 1, track)

\* html_to_docx_paragraphs: the check `start_idx < len(paragraph_text) and
\* end_idx <= len(paragraph_text)`
WithinParagraph(comment, paragraph_text) ==
    /\ comment.start_index < Len(paragraph_text)
    /\ comment.end_index <= Len(paragraph_text)

\* html_to_docx_paragraphs: `for comment in comments` from comment number k
\* on, against the text the paragraph had before the loop; the first comment
\* within the paragraph is applied and ends the loop
RECURSIVE HtmlComments(_, _, _, _, _)
HtmlComments(st, paragraph_text, comments, k, track) ==
    IF k > Len(comments) THEN st
    ELSE IF WithinParagraph(comments[k], paragraph_text)
    THEN TextCommentStep(st, comments, k, track)
    ELSE HtmlComments(
            [st EXCEPT !.log = Append(@,
                LogEntry(st.doc, st.paragraph, k, comments[k], track, FALSE,
                         [doc |-> st.doc, printed |-> <<>>]))],
            paragraph_text, comments, k + 1, track)

----------------------------------------------------------------------------
(* html_to_docx_paragraphs *)

\* An html content is the sequence of its elements in document order, each
\* with its tag name, its parent (0: the top level) and the text it holds
\* before its first child element.
Tags == {"p", "h1", "ul", "ol", "li"}
NodeTexts == {<<>>, <<"a">>}

RECURSIVE IsAncestorOrSelf(_, _, _)
IsAncestorOrSelf(tree, a, j) ==
    IF j = a THEN TRUE
    ELSE IF j = 0 THEN FALSE
    ELSE IsAncestorOrSelf(tree, a, tree[j].parent)

\* the sequences that are the document order of a tree
IsTree(tree) ==
    \A i \in 1..Len(tree) :
        /\ tree[i].parent < i
        /\ i > 1 => IsAncestorOrSelf(tree, tree[i].parent, i - 1)

Trees(n) ==
    UNION {{t \in [1..k -> [name : Tags, parent : 0..(n - 1), text : NodeTexts]] :
                IsTree(t)} : k \in 0..n}

\* soup.find_all([...]): the elements with one of the names, in document order
FindAllNames == {"p", "h1", "h2", "h3", "h4", "h5", "h6", "ul", "ol", "li"}
find_all(tree) ==
    SelectSeq([i \in 1..Len(tree) |-> i], LAMBDA i : tree[i].name \in FindAllNames)

\* element.find_all('li', recursive=False): the li children, in order
DirectLi(tree, i) ==
    SelectSeq([j \in 1..Len(tree) |-> j],
              LAMBDA j : tree[j].parent = i /\ tree[j].name = "li")

\* element.get_text(): the text of the element and of all below it
get_text(tree, i) ==
    Flatten([j \in 1..Len(tree) |->
                IF j >= i /\ IsAncestorOrSelf(tree, i, j) THEN tree[j].text ELSE <<>>])

\* int(element.name[1])
HeadingLevel(name) ==
    CASE name = "h1" -> 1 [] name = "h2" -> 2 [] name = "h3" -> 3
      [] name = "h4" -> 4 [] name = "h5" -> 5 [] name = "h6" -> 6

\* document.add_heading(text, level): the style of the paragraph it adds
HeadingStyle(level) ==
    CASE level = 1 -> "Heading 1" [] level = 2 -> "Heading 2"
      [] level = 3 -> "Heading 3" [] level = 4 -> "Heading 4"
      [] level = 5 -> "Heading 5" [] level = 6 -> "Heading 6"

\* the list paragraphs of one ul/ol: st with a paragraph per li, the local
\* `paragraph` on the last one made
RECURSIVE AddListItems(_, _, _, _)
AddListItems(st, tree, lis, style) ==
    IF lis = <<>> THEN st
    ELSE AddListItems(
            [st EXCEPT !.doc = AddListParagraph(@, get_text(tree, Head(lis)), style),
                       !.paragraph = Len(st.doc.paragraphs) + 1,
                       !.made = Append(@, [element |-> Head(lis),
                                           para |-> Len(st.doc.paragraphs) + 1])],
            tree, Tail(lis), style)

\* the paragraph(s) one element of the walk makes
ElementParagraphs(st, tree, i) ==
    LET name == tree[i].name
        n == Len(st.doc.paragraphs) + 1
        one(style) ==
            [st EXCEPT !.doc = AddParagraph(@, get_text(tree, i), style),
                       !.paragraph = n,
                       !.made = Append(@, [element |-> i, para |-> n])]
    IN  IF name \in {"h1", "h2", "h3", "h4", "h5", "h6"}
        THEN one(HeadingStyle(HeadingLevel(name)))
        ELSE IF name = "ul"
        THEN AddListItems(st, tree, DirectLi(tree, i), "List Bullet")
        ELSE IF name = "ol"
        THEN AddListItems(st, tree, DirectLi(tree, i), "List Number")
        ELSE one("Normal")

\* the body of `for element in soup.find_all(...)` for element i, on
\* st = [doc, paragraph, made, out, log, raised]; paragraph = 0 is the local
\* not bound yet, whose use raises UnboundLocalError
HtmlElementStep(st, tree, i, comments, track) ==
    IF tree[i].name = "li" THEN st
    ELSE
      LET st1 == ElementParagraphs(st, tree, i)
      IN  IF comments = <<>> THEN st1
          ELSE IF st1.paragraph = 0 THEN [st1 EXCEPT !.raised = TRUE]
          ELSE HtmlComments(st1, ParagraphText(st1.doc.paragraphs[st1.paragraph]),
                            comments, 1, track)

\* the loop over the elements, left at the first exception
RECURSIVE HtmlElements(_, _, _, _, _)
HtmlElements(st, tree, elements, comments, track) ==
    IF elements = <<>> \/ st.raised THEN st
    ELSE HtmlElements(HtmlElementStep(st, tree, Head(elements), comments, track),
                      tree, Tail(elements), comments, track)

\* html_to_docx_paragraphs(document, html_content, comments, use_track_changes)
html_to_docx_paragraphs(st, html_content, comments, track) ==
    IF html_content = <<>> THEN st
    ELSE HtmlElements([st EXCEPT !.paragraph = 0], html_content,
                      find_all(html_content), comments, track)

----------------------------------------------------------------------------
(* Values of the variables a specification does not use *)

NoArgs == [input |-> "", comments |-> FALSE, trackchanges |-> FALSE]
NoJson == [type |-> "none", items |-> <<>>]
NoWalk == [elements |-> <<>>, paragraph |-> 0, comment |-> 0, made |-> <<>>]

\* a comment record of the input
Comment(s, e, t, i) ==
    [start_index |-> s, end_index |-> e, comment_content |-> t, id |-> i]

\* the replacement / comment texts tried
Contents == Texts(1)

----------------------------------------------------------------------------
(* SpecAnnot: one call of an annotation function on a paragraph made by   *)
(* document.add_paragraph(T)                                              *)

AnnotIndices == (0 - 1)..(MaxLen + 1)

InitAnnot ==
    /\ pc = "annot"
    /\ args = NoArgs
    /\ use_track_changes = TRUE
    /\ json_data = NoJson
    /\ \E T \in Texts(MaxLen), s \in AnnotIndices, e \in AnnotIndices, t \in Contents :
          /\ item = [type |-> "object", field_name |-> <<>>, content_type |-> "text", content |-> T,
                     comments |-> <<Comment(s, e, t, 1)>>]
          /\ document = AddParagraph(NewDocument, T, "Normal")
    /\ walk = NoWalk
    /\ out = <<>>
    /\ exit_status = 0 - 1
    /\ log = <<>>

CallTrackChange ==
    /\ pc = "annot"
    /\ LET c == item.comments[1]
           r == add_track_change_to_paragraph(document, 1, c.start_index,
                                              c.end_index, c.comment_content)
       IN  /\ document' = r.doc
           /\ out' = out \o r.printed
    /\ pc' = "track_done"
    /\ UNCHANGED <<args, use_track_changes, json_data, item, walk, exit_status, log>>

CallComment ==
    /\ pc = "annot"
    /\ LET c == item.comments[1]
           r == add_comment_to_paragraph(document, 1, c.start_index, c.end_index,
                                         c.id, c.comment_content)
       IN  /\ document' = r.doc
           /\ out' = out \o r.printed
    /\ pc' = "comment_done"
    /\ UNCHANGED <<args, use_track_changes, json_data, item, walk, exit_status, log>>

NextAnnot == CallTrackChange \/ CallComment

SpecAnnot == InitAnnot /\ [][NextAnnot]_vars

----------------------------------------------------------------------------
(* The state the step operators work on, from and to the variables *)

St == [doc |-> document, paragraph |-> walk.paragraph, made |-> walk.made,
       out |-> out, log |-> log, raised |-> FALSE]

\* the variables take the step's result
Becomes(st) ==
    /\ document' = st.doc
    /\ out' = st.out
    /\ log' = st.log

----------------------------------------------------------------------------
(* SpecText: the plain-text branch of process_json_to_docx for one section *)

\* Comment number k of a section carries k characters, so that the markup
\* a paragraph ends with tells which comment made it.
ContentOf(k) == [i \in 1..k |-> "b"]

TextCommentLists ==
    UNION {{cs \in [1..n -> [start_index : (0 - 1)..(MaxTextLen - 1),
                             end_index : 1..MaxTextLen,
                             comment_content : {ContentOf(k) : k \in 1..n},
                             id : 1..n]] :
                \A k \in 1..n : cs[k].id = k /\ cs[k].comment_content = ContentOf(k)} :
           n \in 0..MaxTextComments}

InitText ==
    /\ pc = "text"
    /\ args = NoArgs
    /\ use_track_changes \in BOOLEAN
    /\ json_data = NoJson
    /\ document = NewDocument
    /\ \E T \in Texts(MaxTextLen), cs \in TextCommentLists :
          item = [type |-> "object", field_name |-> <<>>, content_type |-> "text", content |-> T,
                  comments |-> cs]
    /\ walk = NoWalk
    /\ out = <<>>
    /\ exit_status = 0 - 1
    /\ log = <<>>

\* paragraph = document.add_paragraph(content)
TextAddParagraph ==
    /\ pc = "text"
    /\ document' = AddParagraph(document, item.content, "Normal")
    /\ walk' = [walk EXCEPT !.paragraph = Len(document.paragraphs) + 1,
                            !.comment = 1]
    /\ pc' = "text_comments"
    /\ UNCHANGED <<args, use_track_changes, json_data, item, out, exit_status, log>>

\* one turn of `for comment in comments`
TextComment ==
    /\ pc = "text_comments"
    /\ walk.comment <= Len(item.comments)
    /\ Becomes(TextCommentStep(St, item.comments, walk.comment, use_track_changes))
    /\ walk' = [walk EXCEPT !.comment = @ + 1]
    /\ UNCHANGED <<pc, args, use_track_changes, json_data, item, exit_status>>

\* the loop is over: document.add_paragraph() for the spacing
TextEnd ==
    /\ pc = "text_comments"
    /\ walk.comment > Len(item.comments)
    /\ document' = AddParagraph(document, <<>>, "Normal")
    /\ pc' = "section_done"
    /\ UNCHANGED <<args, use_track_changes, json_data, item, walk, out,
                   exit_status, log>>

NextText == TextAddParagraph \/ TextComment \/ TextEnd

SpecText == InitText /\ [][NextText]_vars

----------------------------------------------------------------------------
(* SpecHtml: html_to_docx_paragraphs for one section *)

HtmlCommentLists ==
    UNION {{cs \in [1..n -> [start_index : 0..1, end_index : 1..2,
                             comment_content : {<<"b">>}, id : 1..n]] :
                \A k \in 1..n : cs[k].id = k} :
           n \in 0..MaxHtmlComments}

InitHtml ==
    /\ pc = "html"
    /\ args = NoArgs
    /\ use_track_changes \in BOOLEAN
    /\ json_data = NoJson
    /\ document = NewDocument
    /\ \E tree \in Trees(MaxNodes), cs \in HtmlCommentLists :
          item = [type |-> "object", field_name |-> <<>>, content_type |-> "html", content |-> tree,
                  comments |-> cs]
    /\ walk = NoWalk
    /\ out = <<>>
    /\ exit_status = 0 - 1
    /\ log = <<>>

\* `if not html_content: return`, else the soup and its find_all
HtmlBegin ==
    /\ pc = "html"
    /\ IF item.content = <<>>
       THEN pc' = "html_done" /\ walk' = walk
       ELSE pc' = "html_walk" /\ walk' = [walk EXCEPT !.elements = find_all(item.content)]
    /\ UNCHANGED <<args, use_track_changes, json_data, document, item, out,
                   exit_status, log>>

\* one turn of `for element in soup.find_all(...)`
HtmlElement ==
    /\ pc = "html_walk"
    /\ walk.elements # <<>>
    /\ LET st == HtmlElementStep(St, item.content, Head(walk.elements),
                                 item.comments, use_track_changes)
       IN  /\ Becomes(st)
           /\ walk' = [walk EXCEPT !.elements = Tail(@),
                                   !.paragraph = st.paragraph,
                                   !.made = st.made]
           /\ pc' = IF st.raised THEN "raised" ELSE pc
    /\ UNCHANGED <<args, use_track_changes, json_data, item, exit_status>>

\* the loop is over: the function returns
HtmlReturn ==
    /\ pc = "html_walk"
    /\ walk.elements = <<>>
    /\ pc' = "html_done"
    /\ UNCHANGED <<args, use_track_changes, json_data, document, item, walk, out,
                   exit_status, log>>

NextHtml == HtmlBegin \/ HtmlElement \/ HtmlReturn

SpecHtml == InitHtml /\ [][NextHtml]_vars

----------------------------------------------------------------------------
(* process_json_to_docx: one section *)

\* field_name.replace('_', ' ')
PyReplaceUnderscore(s) == [i \in 1..Len(s) |-> IF s[i] = "_" THEN " " ELSE s[i]]

PyUpper(c) == CASE c = "a" -> "A" [] c = "b" -> "B" [] OTHER -> c
PyLowerChar(c) == CASE c = "A" -> "a" [] c = "B" -> "b" [] OTHER -> c
IsLetter(c) == c \in {"a", "b", "A", "B"}

\* str.title(): a letter is upper case after a non-letter, lower case after
\* a letter
PyTitle(s) ==
    [i \in 1..Len(s) |->
        IF i = 1 \/ ~IsLetter(s[i - 1]) THEN PyUpper(s[i]) ELSE PyLowerChar(s[i])]

\* content_type.lower()
PyLower(content_type) ==
    CASE content_type = "HTML" -> "html" [] content_type = "Html" -> "html"
      [] OTHER -> content_type

\* the body of `for item in json_data` on st; an element of the list that
\* is no object has no .get, which raises AttributeError
ProcessItemStep(st, it, track) ==
    IF it.type # "object" THEN [st EXCEPT !.raised = TRUE]
    ELSE
      LET st1 == IF it.field_name # <<>>
                 THEN [st EXCEPT !.doc = AddParagraph(@,
                          PyTitle(PyReplaceUnderscore(it.field_name)), HeadingStyle(1))]
                 ELSE st
          st2 == IF PyLower(it.content_type) = "html"
                 THEN html_to_docx_paragraphs(st1, it.content, it.comments, track)
                 ELSE TextComments(
                        [st1 EXCEPT !.doc = AddParagraph(@, it.content, "Normal"),
                                    !.paragraph = Len(st1.doc.paragraphs) + 1],
                        it.comments, 1, track)
      IN  IF st2.raised THEN st2
          ELSE [st2 EXCEPT !.doc = AddParagraph(@, <<>>, "Normal")]

----------------------------------------------------------------------------
(* Spec: main() *)

\* the sections tried
FieldNames == {<<>>, <<"a", "_", "b">>}
MainContents ==
    { <<"text", <<"a", "b">> >>,
      <<"html", <<[name |-> "p", parent |-> 0, text |-> <<"a">>]>> >>,
      <<"HTML", <<[name |-> "ul", parent |-> 0, text |-> <<>>]>> >> }
MainComments == {<<>>, <<Comment(0, 1, <<"b">>, 1)>>}

MainItems ==
    {[type |-> "object", field_name |-> f, content_type |-> c[1], content |-> c[2],
      comments |-> cs] : f \in FieldNames, c \in MainContents, cs \in MainComments}
    \cup {[type |-> "string", field_name |-> <<>>, content_type |-> "text",
           content |-> <<>>, comments |-> <<>>]}

\* what the input can hold: no JSON, JSON null, or a list of sections
JsonContents ==
    {[type |-> "malformed", items |-> <<>>], [type |-> "null", items |-> <<>>]}
    \cup {[type |-> "list", items |-> its] :
            its \in UNION {[1..n -> MainItems] : n \in 0..MaxItems}}

ErrNotFound == "Error: File not found"
ErrReading == "Error reading file"
ErrParsing == "Error parsing JSON"
ErrCreating == "Error creating document"
CreatingTrack == "Creating document with track changes..."
CreatingComments == "Creating document with comments..."
Saved == "Document saved as"
Success == "Document created successfully!"
Traceback == "Traceback (most recent call last)"

\* faulty variant of DetermineMode: --trackchanges is looked at first
DetermineMode_TrackFirst(a) ==
    IF a.trackchanges THEN TRUE
    ELSE IF a.comments THEN FALSE
    ELSE TRUE

\* `use_track_changes = True; if args.comments: ... elif args.trackchanges: ...`
DetermineMode(a) ==
    IF a.comments THEN FALSE
    ELSE IF a.trackchanges THEN TRUE
    ELSE TRUE

Init ==
    /\ pc = "main"
    /\ args \in [input : {"-", "in.json"}, comments : BOOLEAN, trackchanges : BOOLEAN]
    /\ use_track_changes = TRUE
    /\ json_data = NoJson
    /\ document = NewDocument
    /\ item = <<>>
    /\ walk = NoWalk
    /\ out = <<>>
    /\ exit_status = 0 - 1
    /\ log = <<>>

\* sys.exit(1) after printing msg
ExitWith(msg) ==
    /\ out' = Append(out, msg)
    /\ exit_status' = 1
    /\ pc' = "exit"

\* args = parser.parse_args() and the mode
ParseArgs ==
    /\ pc = "main"
    /\ use_track_changes' = DetermineMode(args)
    /\ pc' = "read"
    /\ UNCHANGED <<args, json_data, document, item, walk, out, exit_status, log>>

\* json_content = sys.stdin.read(), outside any try: a read that raises
\* (input that does not decode) ends main() with the exception
ReadStdin ==
    /\ pc = "read"
    /\ args.input = "-"
    /\ \E raises \in BOOLEAN :
          IF raises
          THEN ExitWith(Traceback)
          ELSE pc' = "parse" /\ UNCHANGED <<out, exit_status>>
    /\ UNCHANGED <<args, use_track_changes, json_data, document, item, walk, log>>

\* open(args.input) and f.read() under try
ReadFile ==
    /\ pc = "read"
    /\ args.input # "-"
    /\ \E outcome \in {"ok", "FileNotFoundError", "Exception"} :
          IF outcome = "FileNotFoundError" THEN ExitWith(ErrNotFound)
          ELSE IF outcome = "Exception" THEN ExitWith(ErrReading)
          ELSE pc' = "parse" /\ UNCHANGED <<out, exit_status>>
    /\ UNCHANGED <<args, use_track_changes, json_data, document, item, walk, log>>

\* json_data = json.loads(json_content) under try
ParseJson ==
    /\ pc = "parse"
    /\ \E content \in JsonContents :
          IF content.type = "malformed"
          THEN ExitWith(ErrParsing) /\ UNCHANGED json_data
          ELSE /\ json_data' = content
               /\ pc' = "process"
               /\ UNCHANGED <<out, exit_status>>
    /\ UNCHANGED <<args, use_track_changes, document, item, walk, log>>

\* the mode is announced, process_json_to_docx makes the Document and enters
\* its loop; json_data that cannot be iterated raises TypeError, which
\* main() catches
ProcessBegin ==
    /\ pc = "process"
    /\ document' = NewDocument
    /\ LET announce == IF use_track_changes THEN CreatingTrack ELSE CreatingComments
       IN  IF json_data.type # "list"
           THEN /\ out' = out \o <<announce, ErrCreating>>
                /\ exit_status' = 1
                /\ pc' = "exit"
           ELSE /\ out' = Append(out, announce)
                /\ pc' = "items"
                /\ UNCHANGED exit_status
    /\ UNCHANGED <<args, use_track_changes, json_data, item, walk, log>>

\* one turn of `for item in json_data`; what it raises main() catches
ProcessItem ==
    /\ pc = "items"
    /\ json_data.items # <<>>
    /\ LET st == ProcessItemStep(St, Head(json_data.items), use_track_changes)
       IN  /\ document' = st.doc
           /\ log' = st.log
           /\ walk' = [walk EXCEPT !.paragraph = st.paragraph, !.made = st.made]
           /\ IF st.raised
              THEN /\ out' = Append(st.out, ErrCreating)
                   /\ exit_status' = 1
                   /\ pc' = "exit"
              ELSE /\ out' = st.out
                   /\ UNCHANGED <<exit_status, pc>>
    /\ item' = Head(json_data.items)
    /\ json_data' = [json_data EXCEPT !.items = Tail(@)]
    /\ UNCHANGED <<args, use_track_changes>>

\* document.save(output_filename), which can raise, and the two messages
ProcessSave ==
    /\ pc = "items"
    /\ json_data.items = <<>>
    /\ \E saved \in BOOLEAN :
          IF saved
          THEN /\ out' = out \o <<Saved, Success>>
               /\ exit_status' = 0
               /\ pc' = "exit"
          ELSE ExitWith(ErrCreating)
    /\ UNCHANGED <<args, use_track_changes, json_data, document, item, walk, log>>

Next ==
    \/ ParseArgs
    \/ ReadStdin
    \/ ReadFile
    \/ ParseJson
    \/ ProcessBegin
    \/ ProcessItem
    \/ ProcessSave

Spec == Init /\ [][Next]_vars

----------------------------------------------------------------------------
(* Observations used by the properties *)

\* 0 <= start < end <= len(T)
WellFormed(c, T) ==
    /\ 0 <= c.start_index
    /\ c.start_index < c.end_index
    /\ c.end_index <= Len(T)

\* the text of the paragraph as the document holds it, in document order:
\* the text of every run, the run under a w:ins included (deleted text is
\* under w:del, not run text)
RevisedText(paragraph) ==
    Flatten([i \in 1..Len(paragraph.body) |->
                IF paragraph.body[i].kind \in {"r", "ins"}
                THEN paragraph.body[i].text ELSE <<>>])

\* the pieces of a paragraph, in order: plain text, deletion, insertion
Piece(e) ==
    IF e.kind = "ins" THEN <<"insertion", e.text>>
    ELSE IF e.kind = "r" /\ e.del # <<>> THEN <<"deletion", e.del[1].text>>
    ELSE IF e.kind = "r" /\ e.cid = NoId THEN <<"text", e.text>>
    ELSE <<e.kind, e.text>>

Pieces(paragraph) == [i \in 1..Len(paragraph.body) |-> Piece(paragraph.body[i])]

\* a text piece, left out when empty
TextPiece(t) == IF t = <<>> THEN <<>> ELSE << <<"text", t>> >>

\* the runs that carry text (not the comment reference run)
TextRuns(paragraph) ==
    SelectSeq(paragraph.body,
              LAMBDA e : e.kind = "r" /\ e.cid = NoId /\ e.del = <<>>)

\* the positions of the comment range starts in a paragraph
RangeStarts(paragraph) ==
    {i \in 1..Len(paragraph.body) : paragraph.body[i].kind = "commentRangeStart"}

AnnotT == item.content
AnnotC == item.comments[1]

----------------------------------------------------------------------------
(* Properties of SpecAnnot *)

\* C1: track-changes mode, well-formed range: the paragraph's content in order
\* is T[:start], a deletion holding T[start:end], an insertion holding the
\* replacement, T[end:], and the text of its runs in document order is
\* T[:start] + replacement + T[end:].
C1_TrackChangeReplacesSpan ==
    (pc = "track_done" /\ WellFormed(AnnotC, AnnotT)) =>
        LET s == AnnotC.start_index
            e == AnnotC.end_index
            p == document.paragraphs[1]
        IN  /\ Pieces(p) =
                  TextPiece(SubSeq(AnnotT, 1, s))
                  \o << <<"deletion", SubSeq(AnnotT, s + 1, e)>>,
                        <<"insertion", AnnotC.comment_content>> >>
                  \o TextPiece(SubSeq(AnnotT, e + 1, Len(AnnotT)))
            /\ RevisedText(p) =
                  SubSeq(AnnotT, 1, s) \o AnnotC.comment_content
                  \o SubSeq(AnnotT, e + 1, Len(AnnotT))

C1_Witness ==
    /\ pc = "track_done"
    /\ WellFormed(AnnotC, AnnotT)
    /\ AnnotC.start_index > 0
    /\ AnnotC.end_index < Len(AnnotT)
    /\ AnnotC.comment_content # <<>>
    /\ Len(document.paragraphs[1].body) = 4

\* C2: comments mode, well-formed range: the run texts concatenate to T, the
\* text runs are T[:start], T[start:end], T[end:] with the empty outer parts
\* left out, and exactly one comment, with the comment text, is attached.
C2_CommentPreservesText ==
    (pc = "comment_done" /\ WellFormed(AnnotC, AnnotT)) =>
        LET s == AnnotC.start_index
            e == AnnotC.end_index
            p == document.paragraphs[1]
            runs == TextRuns(p)
        IN  /\ ParagraphText(p) = AnnotT
            /\ [i \in 1..Len(runs) |-> <<"text", runs[i].text>>] =
                  TextPiece(SubSeq(AnnotT, 1, s))
                  \o << <<"text", SubSeq(AnnotT, s + 1, e)>> >>
                  \o TextPiece(SubSeq(AnnotT, e + 1, Len(AnnotT)))
            /\ Len(runs) <= 3
            /\ Len(document.comments) = 1
            /\ document.comments[1].text = AnnotC.comment_content
            /\ Cardinality(RangeStarts(p)) = 1

C2_Witness ==
    /\ pc = "comment_done"
    /\ WellFormed(AnnotC, AnnotT)
    /\ Len(TextRuns(document.paragraphs[1])) = 3
    /\ Len(document.comments) = 1

\* C3: a range that does not satisfy 0 <= start < end <= len(T) leaves the
\* paragraph as it was and attaches no comment and no revision, in both
\* functions.
C3_OutOfRangeIsNoOp ==
    (pc \in {"track_done", "comment_done"} /\ ~WellFormed(AnnotC, AnnotT)) =>
        document = AddParagraph(NewDocument, AnnotT, "Normal")

\* C7: comments mode, well-formed range: the comment is anchored to the run
\* holding T[start:end], the run after the one holding T[:start] when there
\* is one.
C7_AnchorOnCommentedRun ==
    (pc = "comment_done" /\ WellFormed(AnnotC, AnnotT)) =>
        RangeStarts(document.paragraphs[1]) =
            {IF AnnotC.start_index > 0 THEN 2 ELSE 1}

----------------------------------------------------------------------------
(* Properties of SpecText *)

\* the positions of the deletions, insertions and comment references
Deletions(paragraph) ==
    {i \in 1..Len(paragraph.body) : paragraph.body[i].del # <<>>}
Insertions(paragraph) ==
    {i \in 1..Len(paragraph.body) : paragraph.body[i].kind = "ins"}
References(paragraph) ==
    {i \in 1..Len(paragraph.body) :
        paragraph.body[i].kind = "r" /\ paragraph.body[i].cid # NoId}

\* the text of the content paragraph once the first k comments of cs were
\* applied to the text T in order: an accepted track change takes its span
\* out of the text the next range is checked against, a comment leaves it
RECURSIVE TextLeftBy(_, _, _, _)
TextLeftBy(T, cs, k, track) ==
    IF k = 0 THEN T
    ELSE LET prev == TextLeftBy(T, cs, k - 1, track)
             s == cs[k].start_index
             e == cs[k].end_index
         IN  IF s >= Len(prev) \/ e > Len(prev) \/ s >= e THEN prev
             ELSE IF track
             THEN PySliceTo(prev, s) \o PySliceFrom(prev, e)
             ELSE prev

\* the comments whose range was accepted
AcceptedComments == {k \in 1..Len(log) : ~log[k].invalid}

\* C10: a plain-text section applies every comment, in list order, to the one
\* content paragraph, each range checked against the text the preceding
\* applications left; after the loop the paragraph carries the markup of at
\* most one comment, the last accepted one, and none when none was accepted.
C10_TextSectionKeepsLastMarkup ==
    (pc = "section_done") =>
        LET p == document.paragraphs[1]
            cs == item.comments
            T == item.content
        IN  /\ Len(log) = Len(cs)
            /\ \A k \in 1..Len(log) :
                  /\ log[k].comment = k
                  /\ log[k].para = 1
                  /\ log[k].invoked
                  /\ log[k].track = use_track_changes
                  /\ log[k].invalid =
                        LET prev == TextLeftBy(T, cs, k - 1, use_track_changes)
                        IN  \/ cs[k].start_index >= Len(prev)
                            \/ cs[k].end_index > Len(prev)
                            \/ cs[k].start_index >= cs[k].end_index
            /\ Cardinality(Deletions(p)) <= 1
            /\ Cardinality(Insertions(p)) <= 1
            /\ Cardinality(RangeStarts(p)) <= 1
            /\ Cardinality(References(p)) <= 1
            /\ IF AcceptedComments = {}
               THEN p = [style |-> "Normal",
                         body |-> IF T # <<>> THEN <<Run(T)>> ELSE <<>>]
               ELSE LET last == CHOOSE k \in AcceptedComments :
                                    \A j \in AcceptedComments : j <= k
                    IN  IF use_track_changes
                        THEN /\ Cardinality(Deletions(p)) = 1
                             /\ \E i \in Insertions(p) :
                                   p.body[i].text = cs[last].comment_content
                             /\ RangeStarts(p) = {} /\ References(p) = {}
                        ELSE /\ Deletions(p) = {} /\ Insertions(p) = {}
                             /\ \E i \in RangeStarts(p) :
                                   /\ p.body[i].cid = Len(document.comments) - 1
                                   /\ document.comments[p.body[i].cid + 1].text =
                                         cs[last].comment_content
                             /\ Len(document.comments) = Cardinality(AcceptedComments)

C10_Witness ==
    /\ pc = "section_done"
    /\ Len(item.comments) >= 2
    /\ Cardinality(AcceptedComments) >= 2
    /\ use_track_changes
    /\ \E i \in Insertions(document.paragraphs[1]) :
          document.paragraphs[1].body[i].text = ContentOf(2)

----------------------------------------------------------------------------
(* Properties of SpecHtml *)

\* C4: every comment whose range is invalid for the paragraph it is
\* considered against (start >= len, end > len or start >= end) has a
\* warning printed for it and does not modify the paragraph.
C4_InvalidRangeWarnsAndSkips ==
    \A k \in 1..Len(log) :
        log[k].invalid => (log[k].warned /\ ~log[k].modified)

\* C8: over the whole walk every emitted paragraph has an annotation
\* function invoked on it at most once, and with the first comment in list
\* order that has start_index < len(text) and end_index <= len(text).
C8_OneAnnotationPerParagraph ==
    /\ \A pi \in 1..Len(document.paragraphs) :
          Cardinality({k \in 1..Len(log) : log[k].invoked /\ log[k].para = pi}) <= 1
    /\ \A k \in 1..Len(log) :
          log[k].invoked =>
            LET cs == item.comments
                fits(c) == c.start_index < log[k].len /\ c.end_index <= log[k].len
            IN  /\ fits(cs[log[k].comment])
                /\ \A j \in 1..(log[k].comment - 1) : ~fits(cs[j])

\* C9: when the walk is over, every li element of the input has exactly one
\* list paragraph emitted for it, holding its text.
C9_EveryLiEmittedOnce ==
    (pc = "html_done") =>
        \A i \in 1..Len(item.content) :
            item.content[i].name = "li" =>
                /\ Cardinality({m \in 1..Len(walk.made) :
                        /\ walk.made[m].element = i
                        /\ document.paragraphs[walk.made[m].para].style
                              \in {"List Bullet", "List Number"}}) = 1
                /\ \A m \in 1..Len(walk.made) :
                        walk.made[m].element = i =>
                            ParagraphText(document.paragraphs[walk.made[m].para])
                                = get_text(item.content, i)

----------------------------------------------------------------------------
(* Properties of Spec *)

Printed(msg) == \E i \in 1..Len(out) : out[i] = msg

ErrorMessages == {ErrNotFound, ErrReading, ErrParsing, ErrCreating}

\* C5: main() never ends with an uncaught exception from input reading,
\* JSON parsing or document assembly: each failure ends with an error message
\* and exit status 1, and the success message is printed only after
\* process_json_to_docx returned having saved the file.
C5_MainReportsEveryFailure ==
    (pc = "exit") =>
        /\ ~Printed(Traceback)
        /\ exit_status # 0 => (exit_status = 1 /\ out[Len(out)] \in ErrorMessages)
        /\ Printed(Success) => (Printed(Saved) /\ exit_status = 0)

\* C6: the mode is track changes without flag and with --trackchanges alone,
\* comments exactly when --comments is given, also together with
\* --trackchanges; every section of the run is annotated in that mode.
C6_ModeFromFlags ==
    (pc # "main") =>
        /\ use_track_changes = ~args.comments
        /\ \A k \in 1..Len(log) : log[k].track = ~args.comments
        /\ Printed(CreatingTrack) => ~args.comments
        /\ Printed(CreatingComments) => args.comments

C6_Witness ==
    /\ pc = "exit"
    /\ exit_status = 0
    /\ args.comments /\ args.trackchanges
    /\ \E j, k \in 1..Len(log) :
          /\ log[j].para # log[k].para
          /\ log[j].invoked /\ log[k].invoked
          /\ ~log[j].track /\ ~log[k].track

====
